---------------------------- MODULE Spec2Model ----------------------------
(***************************************************************************)
(* A model of assignment3/cs231n/rnn_layers.py: the forward and backward   *)
(* passes of the vanilla RNN, the LSTM, the word embedding, the temporal   *)
(* affine layer and the temporal softmax loss.                             *)
(*                                                                         *)
(* Numbers.  float64 values are modelled on a fixed-point grid: the        *)
(* integer v stands for the real v / Scale.  A product is rounded back to  *)
(* the grid (Mul), a sum is exact.  tanh, exp and log are replaced by      *)
(* rational surrogates on the grid that keep what the code relies on:      *)
(* tanh is odd, increasing and bounded by 1, exp is positive and           *)
(* decreasing on the non-positive arguments the code gives it and          *)
(* underflows to 0 below the float64 threshold, log(1) = 0 and             *)
(* log(0) = -inf.                                                          *)
(*                                                                         *)
(* Arrays.  A numpy array is a function over 0..n-1 (the source's          *)
(* 0-based indices are kept); a matrix is an array of rows, a sequence     *)
(* tensor (N, T, D) is indexed [n][t][d].  numpy's broadcasting and        *)
(* indexing rules are modelled where the code relies on them.              *)
(*                                                                         *)
(* State.  One call chain runs at a time: fn says which function the       *)
(* caller runs, args holds the tensors the caller owns and passes in,      *)
(* loc the locals of the running function, ret what the last call          *)
(* returned, calls the step-backward calls a sequence backward has made.   *)
(***************************************************************************)
EXTENDS Integers, Sequences, FiniteSets, TLC

VARIABLES fn, pc, args, loc, ret, calls

vars == <<fn, pc, args, loc, ret, calls>>

\* ------------------------------------------------------------------ bounds
\* Resolution of the number grid: v stands for v / Scale.
Scale == 16
\* Longest sequence the caller passes.
MaxT == 3
\* Batch size, input width, hidden width of the sequence calls.
BatchN == 2
DimD == 2
DimH == 2
\* Vocabulary size, and output width of the affine layer.
VocabV == 3
DimM == 3

\* ----------------------------------------------------------------- numbers
Abs(v) == IF v < 0 THEN -v ELSE v

Sgn(v) == IF v < 0 THEN -1 ELSE IF v > 0 THEN 1 ELSE 0

\* a * b of two grid numbers, rounded to the grid.
Mul(a, b) == (a * b) \div Scale

\* np.tanh on the grid: odd, increasing, |tanh| < 1, tanh(0) = 0.
Tanh(v) == Sgn(v) * ((Abs(v) * Scale) \div (Scale + Abs(v)))

Idx(n) == 0 .. (n - 1)

\* The array f with its entries computed once: TLC computes the entries of
\* a function expression anew on every use unless it has compared it.
Arr(f) == IF f = f THEN f ELSE f

Rows(A) == Cardinality(DOMAIN A)

Cols(A) == Cardinality(DOMAIN A[0])

\* f[0] + ... + f[k-1]
RECURSIVE SumTo(_, _)
SumTo(f, k) == IF k = 0 THEN 0 ELSE f[k - 1] + SumTo(f, k - 1)

Zeros1(n) == Arr([j \in Idx(n) |-> 0])

Zeros2(n, m) == Arr([i \in Idx(n) |-> [j \in Idx(m) |-> 0]])

Zeros3(n, t, m) == Arr([i \in Idx(n) |-> [k \in Idx(t) |-> [j \in Idx(m) |-> 0]]])

\* A.T
Transpose(A) == Arr([j \in DOMAIN A[0] |-> [i \in DOMAIN A |-> A[i][j]]])

\* A.dot(B) for A of shape (n, k) and B of shape (k, m)
Dot(A, B) ==
  Arr([i \in DOMAIN A |-> [j \in DOMAIN B[0] |->
     SumTo([k \in DOMAIN B |-> Mul(A[i][k], B[k][j])], Rows(B))]])

\* numpy broadcasting of two row counts: equal, or one of them 1.
Broadcastable(n, m) == n = m \/ n = 1 \/ m = 1

BRows(n, m) == IF n = 1 THEN m ELSE n

\* A + B of two matrices of the same width, rows broadcast.
BAdd(A, B) ==
  Arr([i \in Idx(BRows(Rows(A), Rows(B))) |-> [j \in DOMAIN A[0] |->
     A[IF Rows(A) = 1 THEN 0 ELSE i][j] + B[IF Rows(B) = 1 THEN 0 ELSE i][j]]])

\* A * B elementwise, rows broadcast.
BMul(A, B) ==
  Arr([i \in Idx(BRows(Rows(A), Rows(B))) |-> [j \in DOMAIN A[0] |->
     Mul(A[IF Rows(A) = 1 THEN 0 ELSE i][j], B[IF Rows(B) = 1 THEN 0 ELSE i][j])]])

\* A + b for a matrix A (n, m) and a vector b (m,)
AddVec(A, b) == Arr([i \in DOMAIN A |-> [j \in DOMAIN A[i] |-> A[i][j] + b[j]]])

\* np.sum(A, axis=0)
SumAxis0(A) == Arr([j \in DOMAIN A[0] |-> SumTo([i \in DOMAIN A |-> A[i][j]], Rows(A))])

\* x[:, t, :]
Slice(x, t) == Arr([n \in DOMAIN x |-> x[n][t]])

\* x[:, t, :] = v
SetSlice(x, t, v) == Arr([n \in DOMAIN x |-> [x[n] EXCEPT ![t] = v[n]]])

\* np.tanh(x) for a matrix x
TanhM(x) == Arr([i \in DOMAIN x |-> [j \in DOMAIN x[i] |-> Tanh(x[i][j])]])

\* 1 - A elementwise
OneMinus(A) == Arr([i \in DOMAIN A |-> [j \in DOMAIN A[i] |-> Scale - A[i][j]]])

\* An exception raised by numpy, in place of a result.
Raise(e) == [ok |-> FALSE, err |-> e]

\* ------------------------------------------------------------- vanilla RNN
rnn_step_forward(x, prev_h, Wx, Wh, b) ==
  LET xw == Dot(x, Wx)
      hw == Dot(prev_h, Wh)
  IN  IF ~Broadcastable(Rows(xw), Rows(hw))
      THEN Raise("ValueError")
      ELSE LET a == AddVec(BAdd(xw, hw), b)
               next_h == TanhM(a)
           IN  [ok |-> TRUE, next_h |-> next_h,
                cache |-> [x |-> x, prev_h |-> prev_h, Wx |-> Wx, Wh |-> Wh,
                           next_h |-> next_h]]

rnn_step_backward(dnext_h, cache) ==
  LET next_h == cache.next_h
      dnext_h_input == BMul(dnext_h, OneMinus(BMul(next_h, next_h)))
  IN  [dx |-> Dot(dnext_h_input, Transpose(cache.Wx)),
       dprev_h |-> Dot(dnext_h_input, Transpose(cache.Wh)),
       dWx |-> Dot(Transpose(cache.x), dnext_h_input),
       dWh |-> Dot(Transpose(cache.prev_h), dnext_h_input),
       db |-> SumAxis0(dnext_h_input)]

\* -------------------------------------------------------------------- LSTM
Max(a, b) == IF a > b THEN a ELSE b

Min(a, b) == IF a < b THEN a ELSE b

\* float64: np.exp(v) is 0.0 for every v below about -745.13.
ExpUnderflow == 745 * Scale

\* np.exp on the grid.  For v <= 0: 1 at 0, positive and decreasing down to
\* the underflow threshold, 0 below it.  For v > 0: above 1 and increasing.
Exp(v) ==
  IF v < -ExpUnderflow THEN 0
  ELSE IF v <= 0 THEN Max(1, (Scale * Scale) \div (Scale - v))
  ELSE Scale + v + (Mul(v, v) \div 2)

\* a / b of two grid numbers.
Div(a, b) == (a * Scale) \div b

\* sigmoid with z = np.exp(-x) taken for every element and no second case.
sigmoid_naive(x) ==
  LET z == Arr([i \in DOMAIN x |-> [j \in DOMAIN x[i] |-> Exp(-x[i][j])]])
  IN  [out |-> Arr([i \in DOMAIN x |-> [j \in DOMAIN x[i] |-> Div(Scale, Scale + z[i][j])]]),
       pos_mask |-> [i \in DOMAIN x |-> [j \in DOMAIN x[i] |-> TRUE]],
       neg_mask |-> [i \in DOMAIN x |-> [j \in DOMAIN x[i] |-> FALSE]],
       exp_pos |-> {<<i, j, -x[i][j]>> : i \in DOMAIN x, j \in DOMAIN x[0]},
       exp_neg |-> {}]

\* sigmoid(x) for a matrix x, mask by mask as the source computes it: out is
\* what it returns; pos_mask and neg_mask are its two masks, exp_pos and
\* exp_neg the elements (row, column, argument) that the np.exp of line 234
\* and the np.exp of line 235 are evaluated at.
sigmoid(x) ==
  LET pos_mask == [i \in DOMAIN x |-> [j \in DOMAIN x[i] |-> x[i][j] >= 0]]
      neg_mask == [i \in DOMAIN x |-> [j \in DOMAIN x[i] |-> x[i][j] < 0]]
      z0 == [i \in DOMAIN x |-> [j \in DOMAIN x[i] |-> 0]]
      z1 == [i \in DOMAIN x |-> [j \in DOMAIN x[i] |->
               IF pos_mask[i][j] THEN Exp(-x[i][j]) ELSE z0[i][j]]]
      z == Arr([i \in DOMAIN x |-> [j \in DOMAIN x[i] |->
               IF neg_mask[i][j] THEN Exp(x[i][j]) ELSE z1[i][j]]])
      top == [i \in DOMAIN x |-> [j \in DOMAIN x[i] |->
               IF neg_mask[i][j] THEN z[i][j] ELSE Scale]]
  IN  [out |-> Arr([i \in DOMAIN x |-> [j \in DOMAIN x[i] |->
                 Div(top[i][j], Scale + z[i][j])]]),
       pos_mask |-> pos_mask,
       neg_mask |-> neg_mask,
       exp_pos |-> {<<p[1], p[2], -x[p[1]][p[2]]>> :
                     p \in {q \in (DOMAIN x) \X (DOMAIN x[0]) : pos_mask[q[1]][q[2]]}},
       exp_neg |-> {<<p[1], p[2], x[p[1]][p[2]]>> :
                     p \in {q \in (DOMAIN x) \X (DOMAIN x[0]) : neg_mask[q[1]][q[2]]}}]

\* A[:, lo:hi] (a slice stops at the last column)
ColSlice(A, lo, hi) ==
  Arr([i \in DOMAIN A |-> [j \in Idx(Max(0, Min(hi, Cols(A)) - lo)) |-> A[i][lo + j]]])

\* G[:, lo:lo+Cols(V)] = V, the rows of V broadcast
SetCols(G, lo, V) ==
  Arr([i \in DOMAIN G |-> [j \in DOMAIN G[i] |->
     IF lo <= j /\ j < lo + Cols(V)
     THEN V[IF Rows(V) = 1 THEN 0 ELSE i][j - lo]
     ELSE G[i][j]]])

lstm_step_forward(x, prev_h, prev_c, Wx, Wh, b) ==
  LET N == Rows(prev_h)
      H == Cols(prev_h)
      xw == Dot(x, Wx)
      hw == Dot(prev_h, Wh)
  IN  IF ~Broadcastable(Rows(xw), Rows(hw))
      THEN Raise("ValueError")
      ELSE
      LET a == AddVec(BAdd(xw, hw), b)
          gate_i == sigmoid(ColSlice(a, 0, H)).out
          gate_f == sigmoid(ColSlice(a, H, 2 * H)).out
          gate_o == sigmoid(ColSlice(a, 2 * H, 3 * H)).out
          gate_g == TanhM(ColSlice(a, 3 * H, Cols(a)))
      IN  \* gate[:, 0:H] = gate_i needs the rows of gate_i to fit gate's N rows
          IF ~(Rows(a) = N \/ Rows(a) = 1) \/ ~Broadcastable(Rows(prev_c), Rows(a))
          THEN Raise("ValueError")
          ELSE
          LET gate == SetCols(SetCols(SetCols(SetCols(Zeros2(N, 4 * H),
                        0, gate_i), H, gate_f), 2 * H, gate_o), 3 * H, gate_g)
              next_c == BAdd(BMul(prev_c, gate_f), BMul(gate_g, gate_i))
              next_h == BMul(TanhM(next_c), gate_o)
          IN  [ok |-> TRUE, next_h |-> next_h, next_c |-> next_c,
               cache |-> [x |-> x, prev_h |-> prev_h, prev_c |-> prev_c,
                          gate |-> gate, next_c |-> next_c,
                          Wx |-> Wx, Wh |-> Wh, b |-> b]]

\* lstm_step_backward with lines 358 and 359 exchanged: the gradient of the
\* block input goes to columns 2H..3H-1, that of the output gate to 3H..4H-1.
lstm_step_backward_swapped(dnext_h, dnext_c, cache) ==
  LET H == Cols(cache.prev_h)
      gate == cache.gate
      gate_i == ColSlice(gate, 0, H)
      gate_f == ColSlice(gate, H, 2 * H)
      gate_o == ColSlice(gate, 2 * H, 3 * H)
      gate_g == ColSlice(gate, 3 * H, Cols(gate))
      th == TanhM(cache.next_c)
      dnext_c2 == BAdd(dnext_c, BMul(BMul(dnext_h, gate_o), OneMinus(BMul(th, th))))
      dgate_i == BMul(dnext_c2, gate_g)
      dgate_f == BMul(dnext_c2, cache.prev_c)
      dgate_o == BMul(dnext_h, th)
      dgate_g == BMul(dnext_c2, gate_i)
      dgate_i_input == BMul(BMul(dgate_i, gate_i), OneMinus(gate_i))
      dgate_f_input == BMul(BMul(dgate_f, gate_f), OneMinus(gate_f))
      dgate_o_input == BMul(BMul(dgate_o, gate_o), OneMinus(gate_o))
      dgate_g_input == BMul(dgate_g, OneMinus(BMul(gate_g, gate_g)))
      dgate_input == SetCols(SetCols(SetCols(SetCols(Zeros2(Rows(gate), Cols(gate)),
                       0, dgate_i_input), H, dgate_f_input), 2 * H, dgate_g_input),
                       3 * H, dgate_o_input)
  IN  [dx |-> Dot(dgate_input, Transpose(cache.Wx)),
       dprev_h |-> Dot(dgate_input, Transpose(cache.Wh)),
       dprev_c |-> BMul(dnext_c2, gate_f),
       dWx |-> Dot(Transpose(cache.x), dgate_input),
       dWh |-> Dot(Transpose(cache.prev_h), dgate_input),
       db |-> SumAxis0(dgate_input),
       dnext_c_after |-> dnext_c2,
       dgate_input |-> dgate_input]

\* lstm_step_backward: what it returns, in dnext_c_after what the array
\* passed as dnext_c holds when it returns (line 339 adds to it in place),
\* and in dgate_input the local block that lines 355-359 assemble.
lstm_step_backward(dnext_h, dnext_c, cache) ==
  LET H == Cols(cache.prev_h)
      gate == cache.gate
      gate_i == ColSlice(gate, 0, H)
      gate_f == ColSlice(gate, H, 2 * H)
      gate_o == ColSlice(gate, 2 * H, 3 * H)
      gate_g == ColSlice(gate, 3 * H, Cols(gate))
      th == TanhM(cache.next_c)
      dnext_c2 == BAdd(dnext_c, BMul(BMul(dnext_h, gate_o), OneMinus(BMul(th, th))))
      dgate_i == BMul(dnext_c2, gate_g)
      dgate_f == BMul(dnext_c2, cache.prev_c)
      dgate_o == BMul(dnext_h, th)
      dgate_g == BMul(dnext_c2, gate_i)
      dgate_i_input == BMul(BMul(dgate_i, gate_i), OneMinus(gate_i))
      dgate_f_input == BMul(BMul(dgate_f, gate_f), OneMinus(gate_f))
      dgate_o_input == BMul(BMul(dgate_o, gate_o), OneMinus(gate_o))
      dgate_g_input == BMul(dgate_g, OneMinus(BMul(gate_g, gate_g)))
      dgate_input == SetCols(SetCols(SetCols(SetCols(Zeros2(Rows(gate), Cols(gate)),
                       0, dgate_i_input), H, dgate_f_input), 2 * H, dgate_o_input),
                       3 * H, dgate_g_input)
  IN  [dx |-> Dot(dgate_input, Transpose(cache.Wx)),
       dprev_h |-> Dot(dgate_input, Transpose(cache.Wh)),
       dprev_c |-> BMul(dnext_c2, gate_f),
       dWx |-> Dot(Transpose(cache.x), dgate_input),
       dWh |-> Dot(Transpose(cache.prev_h), dgate_input),
       db |-> SumAxis0(dgate_input),
       dnext_c_after |-> dnext_c2,
       dgate_input |-> dgate_input]

\* list.append on a 0-based list
ListAppend(c, e) == Arr([i \in Idx(Rows(c) + 1) |-> IF i < Rows(c) THEN c[i] ELSE e])

\* rnn_forward, up to the loop: the locals (t is the loop's next index).
rnn_forward_init(a) ==
  [h |-> Zeros3(Rows(a.x), Rows(a.x[0]), Cols(a.h0)),
   prev_h |-> a.h0, cache |-> <<>>, t |-> 0]

\* rnn_forward_iter with line 113 left out: prev_h stays h0.
rnn_forward_iter_stale(a, l) ==
  LET r == rnn_step_forward(Slice(a.x, l.t), l.prev_h, a.Wx, a.Wh, a.b)
      h == SetSlice(l.h, l.t, r.next_h)
  IN  [l EXCEPT !.h = h, !.cache = ListAppend(l.cache, r.cache), !.t = l.t + 1]

\* One iteration of rnn_forward's loop.
rnn_forward_iter(a, l) ==
  LET r == rnn_step_forward(Slice(a.x, l.t), l.prev_h, a.Wx, a.Wh, a.b)
      h == SetSlice(l.h, l.t, r.next_h)
  IN  [l EXCEPT !.h = h, !.prev_h = Slice(h, l.t),
                !.cache = ListAppend(l.cache, r.cache), !.t = l.t + 1]

\* rnn_backward, up to the loop.  dh and cache are its parameters.
rnn_backward_init(dh, cache) ==
  LET N == Rows(dh)
      T == Rows(dh[0])
      H == Rows(dh[0][0])
      D == Cols(cache[0].x)
  IN  [dh |-> dh, cache |-> cache,
       dx |-> Zeros3(N, T, D), dh0 |-> Zeros2(N, H),
       dWx |-> Zeros2(D, H), dWh |-> Zeros2(H, H), db |-> Zeros1(H),
       dnext_h |-> Slice(dh, T - 1), dprev_h |-> <<>>, t |-> T - 1]

\* rnn_backward_iter with line 156 as dnext_h = dh[:, t - 1, :]: the
\* gradient flowing back from the later step is dropped.
rnn_backward_iter_no_dprev(l) ==
  LET r == rnn_step_backward(l.dnext_h, l.cache[l.t])
  IN  [l |-> [l EXCEPT
               !.dx = SetSlice(l.dx, l.t, r.dx),
               !.dprev_h = r.dprev_h,
               !.dnext_h = IF l.t > 0 THEN Slice(l.dh, l.t - 1) ELSE l.dnext_h,
               !.dWx = BAdd(l.dWx, r.dWx),
               !.dWh = BAdd(l.dWh, r.dWh),
               !.db = [j \in DOMAIN l.db |-> l.db[j] + r.db[j]],
               !.t = l.t - 1],
       call |-> [t |-> l.t, dnext_h |-> l.dnext_h, cache |-> l.cache[l.t], ret |-> r]]

\* One iteration of rnn_backward's loop: the new locals, and the call to
\* rnn_step_backward it made.
rnn_backward_iter(l) ==
  LET r == rnn_step_backward(l.dnext_h, l.cache[l.t])
  IN  [l |-> [l EXCEPT
               !.dx = SetSlice(l.dx, l.t, r.dx),
               !.dprev_h = r.dprev_h,
               !.dnext_h = IF l.t > 0 THEN BAdd(Slice(l.dh, l.t - 1), r.dprev_h)
                           ELSE l.dnext_h,
               !.dWx = BAdd(l.dWx, r.dWx),
               !.dWh = BAdd(l.dWh, r.dWh),
               !.db = [j \in DOMAIN l.db |-> l.db[j] + r.db[j]],
               !.t = l.t - 1],
       call |-> [t |-> l.t, dnext_h |-> l.dnext_h, cache |-> l.cache[l.t], ret |-> r]]

\* rnn_backward's return.
rnn_backward_return(l) ==
  [dx |-> l.dx, dh0 |-> l.dprev_h, dWx |-> l.dWx, dWh |-> l.dWh, db |-> l.db]

\* lstm_forward, up to the loop.
lstm_forward_init(a) ==
  [h |-> Zeros3(Rows(a.x), Rows(a.x[0]), Cols(a.h0)),
   prev_h |-> a.h0, prev_c |-> Zeros2(Rows(a.h0), Cols(a.h0)),
   cache |-> <<>>, t |-> 0]

\* One iteration of lstm_forward's loop.
lstm_forward_iter(a, l) ==
  LET r == lstm_step_forward(Slice(a.x, l.t), l.prev_h, l.prev_c, a.Wx, a.Wh, a.b)
      h == SetSlice(l.h, l.t, r.next_h)
  IN  [l EXCEPT !.h = h, !.prev_h = Slice(h, l.t), !.prev_c = r.next_c,
                !.cache = ListAppend(l.cache, r.cache), !.t = l.t + 1]

\* lstm_backward, up to the loop.
lstm_backward_init(dh, cache) ==
  LET N == Rows(dh)
      T == Rows(dh[0])
      H == Rows(dh[0][0])
      D == Cols(cache[0].x)
  IN  [dh |-> dh, cache |-> cache,
       dx |-> Zeros3(N, T, D), dh0 |-> Zeros2(N, H),
       dWx |-> Zeros2(D, 4 * H), dWh |-> Zeros2(H, 4 * H), db |-> Zeros1(4 * H),
       dnext_c |-> Zeros2(N, H),
       dnext_h |-> Slice(dh, T - 1), dprev_h |-> <<>>, t |-> T - 1]

\* lstm_backward_iter with line 461 left out: dnext_c stays the array that
\* the step call changed in place.
lstm_backward_iter_no_rebind(l) ==
  LET r == lstm_step_backward(l.dnext_h, l.dnext_c, l.cache[l.t])
  IN  [l |-> [l EXCEPT
               !.dx = SetSlice(l.dx, l.t, r.dx),
               !.dprev_h = r.dprev_h,
               !.dnext_h = IF l.t > 0 THEN BAdd(Slice(l.dh, l.t - 1), r.dprev_h)
                           ELSE l.dnext_h,
               !.dnext_c = r.dnext_c_after,
               !.dWx = BAdd(l.dWx, r.dWx),
               !.dWh = BAdd(l.dWh, r.dWh),
               !.db = [j \in DOMAIN l.db |-> l.db[j] + r.db[j]],
               !.t = l.t - 1],
       call |-> [t |-> l.t, dnext_h |-> l.dnext_h, dnext_c |-> l.dnext_c,
                 cache |-> l.cache[l.t], ret |-> r]]

\* lstm_backward_iter with lines 463-465 under the "if t > 0" of line 459:
\* timestep 0 adds nothing to dWx, dWh and db.
lstm_backward_iter_skip_first(l) ==
  LET r == lstm_step_backward(l.dnext_h, l.dnext_c, l.cache[l.t])
  IN  [l |-> [l EXCEPT
               !.dx = SetSlice(l.dx, l.t, r.dx),
               !.dprev_h = r.dprev_h,
               !.dnext_h = IF l.t > 0 THEN BAdd(Slice(l.dh, l.t - 1), r.dprev_h)
                           ELSE l.dnext_h,
               !.dnext_c = r.dprev_c,
               !.dWx = IF l.t > 0 THEN BAdd(l.dWx, r.dWx) ELSE l.dWx,
               !.dWh = IF l.t > 0 THEN BAdd(l.dWh, r.dWh) ELSE l.dWh,
               !.db = IF l.t > 0 THEN [j \in DOMAIN l.db |-> l.db[j] + r.db[j]]
                      ELSE l.db,
               !.t = l.t - 1],
       call |-> [t |-> l.t, dnext_h |-> l.dnext_h, dnext_c |-> l.dnext_c,
                 cache |-> l.cache[l.t], ret |-> r]]

\* One iteration of lstm_backward's loop: the new locals, and the call to
\* lstm_step_backward it made.  The array the call changed in place was the
\* local dnext_c, which line 461 then rebinds to the returned dprev_c.
lstm_backward_iter(l) ==
  LET r == lstm_step_backward(l.dnext_h, l.dnext_c, l.cache[l.t])
  IN  [l |-> [l EXCEPT
               !.dx = SetSlice(l.dx, l.t, r.dx),
               !.dprev_h = r.dprev_h,
               !.dnext_h = IF l.t > 0 THEN BAdd(Slice(l.dh, l.t - 1), r.dprev_h)
                           ELSE l.dnext_h,
               !.dnext_c = r.dprev_c,
               !.dWx = BAdd(l.dWx, r.dWx),
               !.dWh = BAdd(l.dWh, r.dWh),
               !.db = [j \in DOMAIN l.db |-> l.db[j] + r.db[j]],
               !.t = l.t - 1],
       call |-> [t |-> l.t, dnext_h |-> l.dnext_h, dnext_c |-> l.dnext_c,
                 cache |-> l.cache[l.t], ret |-> r]]

\* lstm_backward's return.
lstm_backward_return(l) ==
  [dx |-> l.dx, dh0 |-> l.dprev_h, dWx |-> l.dWx, dWh |-> l.dWh, db |-> l.db]

\* ---------------------------------------------------------- word embedding
\* W[x, :] and np.add.at take an index idx of -V .. V-1, a negative one
\* counting from the end; any other raises IndexError.
IndexOk(idx, V) == -V <= idx /\ idx < V

Wrap(idx, V) == IF idx < 0 THEN idx + V ELSE idx

word_embedding_forward(x, W) ==
  IF \E n \in DOMAIN x : \E t \in DOMAIN x[n] : ~IndexOk(x[n][t], Rows(W))
  THEN Raise("IndexError")
  ELSE [ok |-> TRUE,
        out |-> [n \in DOMAIN x |-> [t \in DOMAIN x[n] |-> W[Wrap(x[n][t], Rows(W))]]],
        cache |-> [x |-> x, W |-> W]]

\* np.add.at(dW, x, dout) over the first k entries of x in row-major order:
\* dW[x[n, t]] += dout[n, t], one entry after the other.
RECURSIVE AddAt(_, _, _, _)
AddAt(dW, x, dout, k) ==
  IF k = 0 THEN dW
  ELSE LET T == Rows(x[0])
           n == (k - 1) \div T
           t == (k - 1) % T
           prev == AddAt(dW, x, dout, k - 1)
           v == Wrap(x[n][t], Rows(dW))
       IN  [prev EXCEPT ![v] = [d \in DOMAIN prev[v] |-> prev[v][d] + dout[n][t][d]]]

\* dW[x] += dout in place of np.add.at: a row indexed more than once keeps
\* only the last dout written to it.
RECURSIVE SetAt(_, _, _, _)
SetAt(dW, x, dout, k) ==
  IF k = 0 THEN dW
  ELSE LET T == Rows(x[0])
           n == (k - 1) \div T
           t == (k - 1) % T
       IN  [SetAt(dW, x, dout, k - 1) EXCEPT ![Wrap(x[n][t], Rows(dW))] = dout[n][t]]

word_embedding_backward_overwrite(dout, cache) ==
  SetAt(Zeros2(Rows(cache.W), Cols(cache.W)), cache.x, dout,
        Rows(cache.x) * Rows(cache.x[0]))

word_embedding_backward(dout, cache) ==
  LET x == cache.x
      dW == Zeros2(Rows(cache.W), Cols(cache.W))
  IN  AddAt(dW, x, dout, Rows(x) * Rows(x[0]))

\* --------------------------------------------------------- temporal affine
\* x.reshape(N * T, D) of a tensor (N, T, D)
Flatten(x) ==
  LET T == Rows(x[0]) IN Arr([r \in Idx(Rows(x) * T) |-> x[r \div T][r % T]])

\* A.reshape(N, T, D) of a matrix (N * T, D)
Unflatten(A, N, T) == Arr([n \in Idx(N) |-> [t \in Idx(T) |-> A[n * T + t]]])

temporal_affine_forward(x, w, b) ==
  LET N == Rows(x)
      T == Rows(x[0])
      out == [n \in Idx(N) |-> AddVec(Unflatten(Dot(Flatten(x), w), N, T)[n], b)]
  IN  [ok |-> TRUE, out |-> out, cache |-> [x |-> x, w |-> w, b |-> b, out |-> out]]

\* temporal_affine_backward with w in place of w.T in line 515.
temporal_affine_backward_no_transpose(dout, cache) ==
  LET x == cache.x
      w == cache.w
      N == Rows(x)
      T == Rows(x[0])
  IN  [dx |-> Unflatten(Dot(Flatten(dout), w), N, T),
       dw |-> Transpose(Dot(Transpose(Flatten(dout)), Flatten(x))),
       db |-> SumAxis0(Flatten(dout))]

temporal_affine_backward(dout, cache) ==
  LET x == cache.x
      w == cache.w
      N == Rows(x)
      T == Rows(x[0])
  IN  [dx |-> Unflatten(Dot(Flatten(dout), Transpose(w)), N, T),
       dw |-> Transpose(Dot(Transpose(Flatten(dout)), Flatten(x))),
       db |-> SumAxis0(Flatten(dout))]

\* --------------------------------------------------- temporal softmax loss
\* float64 values that may be infinite or NaN.
Fin(v) == [k |-> "fin", v |-> v]

NegInf == [k |-> "-inf", v |-> 0]

PosInf == [k |-> "+inf", v |-> 0]

NaN == [k |-> "nan", v |-> 0]

\* np.log on the grid: log(1) = 0, increasing, log(0) = -inf.
Log(p) == IF p = 0 THEN NegInf ELSE Fin(p - Scale)

\* mask * f for a boolean mask entry: 1 * f is f, 0 * f is 0 when f is
\* finite and NaN when it is not.
MaskMul(m, f) == IF m THEN f ELSE IF f.k = "fin" THEN Fin(0) ELSE NaN

FAdd(f, g) ==
  IF f.k = "nan" \/ g.k = "nan" THEN NaN
  ELSE IF f.k = "fin" /\ g.k = "fin" THEN Fin(f.v + g.v)
  ELSE IF f.k = "fin" THEN g
  ELSE IF g.k = "fin" \/ g.k = f.k THEN f
  ELSE NaN

FNeg(f) ==
  IF f.k = "fin" THEN Fin(-f.v)
  ELSE IF f.k = "-inf" THEN PosInf
  ELSE IF f.k = "+inf" THEN NegInf
  ELSE NaN

\* f / N for a count N >= 1
FDivN(f, N) == IF f.k = "fin" THEN Fin(f.v \div N) ELSE f

\* np.sum of a vector of such values
RECURSIVE FSumTo(_, _)
FSumTo(f, k) == IF k = 0 THEN Fin(0) ELSE FAdd(FSumTo(f, k - 1), f[k - 1])

\* np.max(row)
RECURSIVE MaxTo(_, _)
MaxTo(f, k) == IF k = 1 THEN f[0] ELSE Max(f[k - 1], MaxTo(f, k - 1))

temporal_softmax_loss(x, y, mask) ==
  LET N == Rows(x)
      T == Rows(x[0])
      V == Rows(x[0][0])
      x_flat == Flatten(x)
      y_flat == [r \in Idx(N * T) |-> y[r \div T][r % T]]
      mask_flat == [r \in Idx(N * T) |-> mask[r \div T][r % T]]
      e == Arr([r \in Idx(N * T) |-> [j \in Idx(V) |->
              Exp(x_flat[r][j] - MaxTo(x_flat[r], V))]])
      probs == Arr([r \in Idx(N * T) |-> [j \in Idx(V) |->
                  Div(e[r][j], SumTo(e[r], V))]])
      loss == FDivN(FNeg(FSumTo([r \in Idx(N * T) |->
                 MaskMul(mask_flat[r], Log(probs[r][y_flat[r]]))], N * T)), N)
      dx1 == [r \in Idx(N * T) |-> [j \in Idx(V) |->
                IF j = y_flat[r] THEN probs[r][j] - Scale ELSE probs[r][j]]]
      dx2 == [r \in Idx(N * T) |-> [j \in Idx(V) |-> dx1[r][j] \div N]]
      dx_flat == [r \in Idx(N * T) |-> [j \in Idx(V) |->
                    IF mask_flat[r] THEN dx2[r][j] ELSE 0]]
  IN  [ok |-> TRUE, loss |-> loss, dx |-> Unflatten(dx_flat, N, T)]

\* ------------------------------------------------------------------ inputs
\* The values the caller's tensors are filled with.
Vals == <<-Scale, Scale \div 2, 0, Scale, -(Scale \div 4), 2 * Scale>>

Pick(k) == Vals[(k % Len(Vals)) + 1]

Seeds == {0, 1}

Gen1(s, m) == Arr([j \in Idx(m) |-> Pick(s + 5 * j)])

Gen2(s, n, m) == Arr([i \in Idx(n) |-> [j \in Idx(m) |-> Pick(s + 3 * i + 5 * j)]])

Gen3(s, n, t, m) ==
  Arr([i \in Idx(n) |-> [k \in Idx(t) |-> [j \in Idx(m) |-> Pick(s + 3 * i + 4 * k + 5 * j)]]])

\* What a caller passes to rnn_forward and then to rnn_backward.
RnnArgs ==
  { [x |-> Gen3(sx, BatchN, T, DimD), h0 |-> Gen2(sh, BatchN, DimH),
     Wx |-> Gen2(swx, DimD, DimH), Wh |-> Gen2(swh + 1, DimH, DimH),
     b |-> Gen1(sb + 2, DimH), dh |-> Gen3(sdh + 3, BatchN, T, DimH)] :
    sx \in Seeds, sh \in Seeds, swx \in Seeds, swh \in Seeds, sb \in Seeds,
    sdh \in Seeds, T \in 1 .. MaxT }

\* What a caller passes to lstm_forward and then to lstm_backward.
LstmArgs ==
  { [x |-> Gen3(sx, BatchN, T, DimD), h0 |-> Gen2(sh, BatchN, DimH),
     Wx |-> Gen2(swx, DimD, 4 * DimH), Wh |-> Gen2(swh + 1, DimH, 4 * DimH),
     b |-> Gen1(sb + 2, 4 * DimH), dh |-> Gen3(sdh + 3, BatchN, T, DimH)] :
    sx \in Seeds, sh \in Seeds, swx \in Seeds, swh \in Seeds, sb \in Seeds,
    sdh \in Seeds, T \in 1 .. MaxT }

\* What a caller passes to a single step: x of Nx rows, the states and the
\* upstream gradients of Nh rows; k is 1 for the RNN and 4 for the LSTM.
StepArgs(k) ==
  { [x |-> Gen2(sx, Nx, DimD), prev_h |-> Gen2(sh, Nh, DimH),
     prev_c |-> Gen2(sh + 2, Nh, DimH),
     Wx |-> Gen2(sw, DimD, k * DimH), Wh |-> Gen2(sw + 1, DimH, k * DimH),
     b |-> Gen1(sw + 2, k * DimH),
     dnext_h |-> Gen2(sd + 3, Nh, DimH), dnext_c |-> Gen2(sd + 4, Nh, DimH)] :
    sx \in Seeds, sh \in Seeds, sw \in Seeds, sd \in Seeds,
    Nx \in 1 .. BatchN, Nh \in 1 .. BatchN }

\* Word indices: a pattern of indices of 0 .. V-1 with repeats, and the
\* same with one entry replaced by an index outside 0 .. V-1.
IdxPat == <<0, 0, 1, 0, 2, 1, 1>>

XBase(s) ==
  [i \in Idx(BatchN) |-> [k \in Idx(MaxT) |->
     IdxPat[((s + MaxT * i + k) % Len(IdxPat)) + 1] % VocabV]]

BadIdx == {-1, -VocabV, -(VocabV + 1), VocabV}

XSet ==
  { XBase(s) : s \in {0, 2, 5} }
  \cup { [XBase(s) EXCEPT ![i][k] = bad] :
         s \in {0, 5}, i \in {0, BatchN - 1}, k \in {MaxT - 1}, bad \in BadIdx }

Ones3(n, t, m) == [i \in Idx(n) |-> [k \in Idx(t) |-> [j \in Idx(m) |-> Scale]]]

EmbedArgs ==
  { [x |-> x, W |-> Gen2(sw, VocabV, DimD), dout |-> dout] :
    x \in XSet, sw \in Seeds,
    dout \in { Gen3(sd, BatchN, MaxT, DimD) : sd \in Seeds }
             \cup { Ones3(BatchN, MaxT, DimD) } }

AffineArgs ==
  { [x |-> Gen3(sx, BatchN, T, DimD), w |-> Gen2(sw, DimD, DimM),
     b |-> Gen1(sb, DimM), dout |-> Gen3(sd + 1, BatchN, T, DimM)] :
    sx \in Seeds, sw \in Seeds, sb \in Seeds, sd \in Seeds, T \in 1 .. MaxT }

\* Scores: some close to each other, some far below the others.
ScoreVals == <<0, Scale, -(1000 * Scale), 2 * Scale, -Scale>>

ScoreGen(s) ==
  [i \in Idx(BatchN) |-> [k \in Idx(MaxT) |-> [j \in Idx(VocabV) |->
     ScoreVals[((s + i + 2 * k + 3 * j) % Len(ScoreVals)) + 1]]]]

YGen(s) == [i \in Idx(BatchN) |-> [k \in Idx(MaxT) |-> (s + i + k) % VocabV]]

MaskSet ==
  { [i \in Idx(BatchN) |-> [k \in Idx(MaxT) |-> FALSE]],
    [i \in Idx(BatchN) |-> [k \in Idx(MaxT) |-> TRUE]],
    [i \in Idx(BatchN) |-> [k \in Idx(MaxT) |-> (i + k) % 2 = 0]],
    [i \in Idx(BatchN) |-> [k \in Idx(MaxT) |-> k = 0]] }

LossArgs ==
  { [x |-> ScoreGen(sx), y |-> YGen(sy), mask |-> m] :
    sx \in 0 .. 4, sy \in 0 .. 2, m \in MaskSet }

\* What a caller passes to sigmoid: zeros, numbers of both signs close to 0
\* and far from it.
SigVals == <<0, -Scale, Scale, -(1000 * Scale), 1000 * Scale, -1, 1>>

SigmoidArgs ==
  { [x |-> [i \in Idx(BatchN) |-> [j \in Idx(DimH) |->
             SigVals[((s + i + 2 * j) % Len(SigVals)) + 1]]]] : s \in 0 .. 6 }
  \cup { [x |-> Gen2(s, BatchN, DimH)] : s \in Seeds }

\* ----------------------------------------------------------------- actions
Init ==
  /\ fn \in {"rnn", "lstm", "rnn_step", "lstm_step", "embed", "affine", "loss",
            "sigmoid"}
  /\ args \in CASE fn = "rnn" -> RnnArgs
                [] fn = "lstm" -> LstmArgs
                [] fn = "rnn_step" -> StepArgs(1)
                [] fn = "lstm_step" -> StepArgs(4)
                [] fn = "embed" -> EmbedArgs
                [] fn = "affine" -> AffineArgs
                [] fn = "loss" -> LossArgs
                [] fn = "sigmoid" -> SigmoidArgs
  /\ pc = "fwd"
  /\ loc = CASE fn = "rnn" -> rnn_forward_init(args)
             [] fn = "lstm" -> lstm_forward_init(args)
             [] OTHER -> <<>>
  /\ ret = <<>>
  /\ calls = <<>>

\* rnn_forward: one pass of the loop, and the return after the last.
RnnForwardIter ==
  /\ fn = "rnn" /\ pc = "fwd"
  /\ loc.t < Rows(args.x[0])
  /\ loc' = rnn_forward_iter(args, loc)
  /\ UNCHANGED <<fn, pc, args, ret, calls>>

RnnForwardReturn ==
  /\ fn = "rnn" /\ pc = "fwd"
  /\ loc.t = Rows(args.x[0])
  /\ ret' = [h |-> loc.h, cache |-> loc.cache]
  /\ pc' = "fwd_done"
  /\ loc' = <<>>
  /\ UNCHANGED <<fn, args, calls>>

\* The caller passes its dh and forward's cache to rnn_backward.
RnnBackwardEnter ==
  /\ fn = "rnn" /\ pc = "fwd_done"
  /\ loc' = rnn_backward_init(args.dh, ret.cache)
  /\ pc' = "bwd"
  /\ UNCHANGED <<fn, args, ret, calls>>

RnnBackwardIter ==
  /\ fn = "rnn" /\ pc = "bwd"
  /\ loc.t >= 0
  /\ loc' = rnn_backward_iter(loc).l
  /\ calls' = Append(calls, rnn_backward_iter(loc).call)
  /\ UNCHANGED <<fn, pc, args, ret>>

RnnBackwardReturn ==
  /\ fn = "rnn" /\ pc = "bwd"
  /\ loc.t < 0
  /\ ret' = [h |-> ret.h, cache |-> ret.cache, grads |-> rnn_backward_return(loc)]
  /\ pc' = "bwd_done"
  /\ loc' = <<>>
  /\ UNCHANGED <<fn, args, calls>>

\* lstm_forward and lstm_backward, likewise.
LstmForwardIter ==
  /\ fn = "lstm" /\ pc = "fwd"
  /\ loc.t < Rows(args.x[0])
  /\ loc' = lstm_forward_iter(args, loc)
  /\ UNCHANGED <<fn, pc, args, ret, calls>>

LstmForwardReturn ==
  /\ fn = "lstm" /\ pc = "fwd"
  /\ loc.t = Rows(args.x[0])
  /\ ret' = [h |-> loc.h, cache |-> loc.cache]
  /\ pc' = "fwd_done"
  /\ loc' = <<>>
  /\ UNCHANGED <<fn, args, calls>>

LstmBackwardEnter ==
  /\ fn = "lstm" /\ pc = "fwd_done"
  /\ loc' = lstm_backward_init(args.dh, ret.cache)
  /\ pc' = "bwd"
  /\ UNCHANGED <<fn, args, ret, calls>>

LstmBackwardIter ==
  /\ fn = "lstm" /\ pc = "bwd"
  /\ loc.t >= 0
  /\ loc' = lstm_backward_iter(loc).l
  /\ calls' = Append(calls, lstm_backward_iter(loc).call)
  /\ UNCHANGED <<fn, pc, args, ret>>

LstmBackwardReturn ==
  /\ fn = "lstm" /\ pc = "bwd"
  /\ loc.t < 0
  /\ ret' = [h |-> ret.h, cache |-> ret.cache, grads |-> lstm_backward_return(loc)]
  /\ pc' = "bwd_done"
  /\ loc' = <<>>
  /\ UNCHANGED <<fn, args, calls>>

\* A caller runs one step forward; when the call returns and the batch sizes
\* it passed agree, it runs the step backward on the cache.
RnnStepForwardCall ==
  /\ fn = "rnn_step" /\ pc = "fwd"
  /\ ret' = rnn_step_forward(args.x, args.prev_h, args.Wx, args.Wh, args.b)
  /\ pc' = IF ret'.ok THEN "fwd_done" ELSE "raised"
  /\ UNCHANGED <<fn, args, loc, calls>>

RnnStepBackwardCall ==
  /\ fn = "rnn_step" /\ pc = "fwd_done"
  /\ Rows(args.x) = Rows(args.prev_h)
  /\ ret' = [ok |-> TRUE, cache |-> ret.cache,
             grads |-> rnn_step_backward(args.dnext_h, ret.cache)]
  /\ pc' = "bwd_done"
  /\ UNCHANGED <<fn, args, loc, calls>>

LstmStepForwardCall ==
  /\ fn = "lstm_step" /\ pc = "fwd"
  /\ ret' = lstm_step_forward(args.x, args.prev_h, args.prev_c,
                              args.Wx, args.Wh, args.b)
  /\ pc' = IF ret'.ok THEN "fwd_done" ELSE "raised"
  /\ UNCHANGED <<fn, args, loc, calls>>

\* The array the caller passed as dnext_c holds, after the call, what line
\* 339 left in it.
LstmStepBackwardCall ==
  /\ fn = "lstm_step" /\ pc = "fwd_done"
  /\ Rows(args.x) = Rows(args.prev_h)
  /\ LET r == lstm_step_backward(args.dnext_h, args.dnext_c, ret.cache)
     IN  /\ ret' = [ok |-> TRUE, cache |-> ret.cache, grads |-> r]
         /\ args' = [args EXCEPT !.dnext_c = r.dnext_c_after]
  /\ pc' = "bwd_done"
  /\ UNCHANGED <<fn, loc, calls>>

WordEmbeddingForwardCall ==
  /\ fn = "embed" /\ pc = "fwd"
  /\ ret' = word_embedding_forward(args.x, args.W)
  /\ pc' = IF ret'.ok THEN "fwd_done" ELSE "raised"
  /\ UNCHANGED <<fn, args, loc, calls>>

WordEmbeddingBackwardCall ==
  /\ fn = "embed" /\ pc = "fwd_done"
  /\ ret' = [ok |-> TRUE, cache |-> ret.cache,
             grads |-> [dW |-> word_embedding_backward(args.dout, ret.cache)]]
  /\ pc' = "bwd_done"
  /\ UNCHANGED <<fn, args, loc, calls>>

TemporalAffineForwardCall ==
  /\ fn = "affine" /\ pc = "fwd"
  /\ ret' = temporal_affine_forward(args.x, args.w, args.b)
  /\ pc' = "fwd_done"
  /\ UNCHANGED <<fn, args, loc, calls>>

TemporalAffineBackwardCall ==
  /\ fn = "affine" /\ pc = "fwd_done"
  /\ ret' = [ok |-> TRUE, cache |-> ret.cache,
             grads |-> temporal_affine_backward(args.dout, ret.cache)]
  /\ pc' = "bwd_done"
  /\ UNCHANGED <<fn, args, loc, calls>>

\* temporal_softmax_loss returns the loss and its gradient in one call.
TemporalSoftmaxLossCall ==
  /\ fn = "loss" /\ pc = "fwd"
  /\ ret' = temporal_softmax_loss(args.x, args.y, args.mask)
  /\ pc' = "bwd_done"
  /\ UNCHANGED <<fn, args, loc, calls>>

\* A caller runs sigmoid on a matrix.
SigmoidCall ==
  /\ fn = "sigmoid" /\ pc = "fwd"
  /\ ret' = sigmoid(args.x)
  /\ pc' = "fwd_done"
  /\ UNCHANGED <<fn, args, loc, calls>>

Next ==
  \/ RnnForwardIter
  \/ RnnForwardReturn
  \/ RnnBackwardEnter
  \/ RnnBackwardIter
  \/ RnnBackwardReturn
  \/ LstmForwardIter
  \/ LstmForwardReturn
  \/ LstmBackwardEnter
  \/ LstmBackwardIter
  \/ LstmBackwardReturn
  \/ RnnStepForwardCall
  \/ RnnStepBackwardCall
  \/ LstmStepForwardCall
  \/ LstmStepBackwardCall
  \/ WordEmbeddingForwardCall
  \/ WordEmbeddingBackwardCall
  \/ TemporalAffineForwardCall
  \/ TemporalAffineBackwardCall
  \/ TemporalSoftmaxLossCall
  \/ SigmoidCall

Spec == Init /\ [][Next]_vars

\* ------------------------------------------------------------------ claims
\* Sequence length, batch size and hidden width of the running sequence call.
SeqT == Rows(args.x[0])

\* The steps chained by hand: step t gets x[:, t, :] and the hidden state
\* that step t-1 returned (h0 for t = 0).
RECURSIVE RnnChain(_, _)
RnnChain(a, t) ==
  rnn_step_forward(Slice(a.x, t),
                   IF t = 0 THEN a.h0 ELSE RnnChain(a, t - 1).next_h,
                   a.Wx, a.Wh, a.b)

\* Likewise for the LSTM, with the cell state that step t-1 returned (zeros
\* for t = 0).
RECURSIVE LstmChain(_, _)
LstmChain(a, t) ==
  IF t = 0
  THEN lstm_step_forward(Slice(a.x, 0), a.h0, Zeros2(Rows(a.h0), Cols(a.h0)),
                         a.Wx, a.Wh, a.b)
  ELSE LET p == LstmChain(a, t - 1)
       IN  lstm_step_forward(Slice(a.x, t), p.next_h, p.next_c, a.Wx, a.Wh, a.b)

\* C1: when rnn_forward or lstm_forward has returned, h[:, t, :] is, for
\* every t, the hidden state the t-th of the hand-chained step calls returns.
C1_ForwardIsChainedSteps ==
  (fn \in {"rnn", "lstm"} /\ pc = "fwd_done") =>
    \A t \in Idx(SeqT) :
      Slice(ret.h, t) = IF fn = "rnn" THEN RnnChain(args, t).next_h
                        ELSE LstmChain(args, t).next_h

\* An LSTM forward over the longest sequence has returned, and its last
\* hidden state is not what the last step gives from h0 and a zero cell.
C1_Witness ==
  /\ fn = "lstm" /\ pc = "fwd_done" /\ SeqT = MaxT
  /\ Slice(ret.h, SeqT - 1) #
       lstm_step_forward(Slice(args.x, SeqT - 1), args.h0,
                         Zeros2(Rows(args.h0), Cols(args.h0)),
                         args.Wx, args.Wh, args.b).next_h

\* C2: the i-th call rnn_backward makes to rnn_step_backward is for
\* timestep T-i; the first gets dh[:, T-1, :] alone, every later one
\* dh[:, t, :] plus the dprev_h the call before it (timestep t+1) returned;
\* when rnn_backward has returned, all of T-1 .. 0 were processed.
C2_RnnBackwardOrderAndUpstream ==
  fn = "rnn" =>
    /\ \A i \in 1 .. Len(calls) :
         /\ calls[i].t = SeqT - i
         /\ calls[i].dnext_h =
              IF i = 1 THEN Slice(args.dh, SeqT - 1)
              ELSE BAdd(Slice(args.dh, calls[i].t), calls[i - 1].ret.dprev_h)
    /\ pc = "bwd_done" => Len(calls) = SeqT

\* rnn_backward has returned after at least two steps, and the first step
\* processed returned a dprev_h that is not zero.
C2_Witness ==
  /\ fn = "rnn" /\ pc = "bwd_done" /\ Len(calls) >= 2
  /\ \E n \in Idx(BatchN) : \E j \in Idx(DimH) : calls[1].ret.dprev_h[n][j] # 0

\* C3: the i-th call lstm_backward makes to lstm_step_backward is for
\* timestep T-i; the first gets an all-zero dnext_c, every later one gets as
\* dnext_c the dprev_c the call before it (timestep t+1) returned.
C3_LstmCellGradientChain ==
  fn = "lstm" =>
    \A i \in 1 .. Len(calls) :
      /\ calls[i].t = SeqT - i
      /\ calls[i].dnext_c =
           IF i = 1 THEN Zeros2(Rows(args.dh), Rows(args.dh[0][0]))
           ELSE calls[i - 1].ret.dprev_c

\* lstm_backward has returned after at least two steps, and the first step
\* processed returned a dprev_c that is not zero.
C3_Witness ==
  /\ fn = "lstm" /\ pc = "bwd_done" /\ Len(calls) >= 2
  /\ \E n \in Idx(BatchN) : \E j \in Idx(DimH) : calls[1].ret.dprev_c[n][j] # 0

\* The call a sequence backward made for timestep t.
CallOf(t) == calls[CHOOSE i \in 1 .. Len(calls) : calls[i].t = t]

\* What the step backward returns for timestep t: on the upstream gradients
\* of the call made for t, and on cache[t].
StepGrad(t) ==
  IF fn = "rnn" THEN rnn_step_backward(CallOf(t).dnext_h, ret.cache[t])
  ELSE lstm_step_backward(CallOf(t).dnext_h, CallOf(t).dnext_c, ret.cache[t])

\* C4: when rnn_backward or lstm_backward has returned, every timestep of
\* 0 .. T-1 had exactly one step-backward call, on cache[t], and dWx, dWh
\* and db are the sums over t of what those calls returned.
C4_ParameterGradientsAreSums ==
  (fn \in {"rnn", "lstm"} /\ pc = "bwd_done") =>
    LET g == Arr([t \in Idx(SeqT) |->
                   LET r == StepGrad(t)
                   IN  [dWx |-> r.dWx, dWh |-> r.dWh, db |-> r.db]])
    IN  /\ \A t \in Idx(SeqT) :
             /\ Cardinality({i \in 1 .. Len(calls) : calls[i].t = t}) = 1
             /\ CallOf(t).cache = ret.cache[t]
        /\ \A d \in DOMAIN ret.grads.dWx : \A j \in DOMAIN ret.grads.dWx[d] :
             ret.grads.dWx[d][j] = SumTo([t \in Idx(SeqT) |-> g[t].dWx[d][j]], SeqT)
        /\ \A d \in DOMAIN ret.grads.dWh : \A j \in DOMAIN ret.grads.dWh[d] :
             ret.grads.dWh[d][j] = SumTo([t \in Idx(SeqT) |-> g[t].dWh[d][j]], SeqT)
        /\ \A j \in DOMAIN ret.grads.db :
             ret.grads.db[j] = SumTo([t \in Idx(SeqT) |-> g[t].db[j]], SeqT)

\* lstm_backward has returned, and the first and the last timestep both
\* gave a dWx that is not zero.
C4_Witness ==
  /\ fn = "lstm" /\ pc = "bwd_done" /\ SeqT >= 2
  /\ \A t \in {0, SeqT - 1} :
       \E d \in Idx(DimD) : \E j \in Idx(4 * DimH) : StepGrad(t).dWx[d][j] # 0

\* The positions (n, t) of the index tensor x that hold v.
Occurrences(x, v) ==
  {p \in Idx(Rows(x)) \X Idx(Rows(x[0])) : x[p[1]][p[2]] = v}

\* Every entry of x is an index of 0 .. V-1.
InVocab(x, V) == \A n \in DOMAIN x : \A t \in DOMAIN x[n] : 0 <= x[n][t] /\ x[n][t] < V

\* C5: when word_embedding_backward has returned for indices of 0 .. V-1,
\* row v of dW is the sum of the dout[n, t, :] with x[n, t] = v (zero when v
\* never occurs), and with an all-ones dout every entry of row v is the
\* number of occurrences of v.
C5_EmbeddingBackwardAccumulates ==
  (fn = "embed" /\ pc = "bwd_done" /\ InVocab(args.x, Rows(args.W))) =>
    LET x == args.x
        N == Rows(x)
        T == Rows(x[0])
        dW == ret.grads.dW
    IN  \A v \in Idx(Rows(args.W)) : \A d \in Idx(Cols(args.W)) :
          /\ dW[v][d] = SumTo([r \in Idx(N * T) |->
                           IF x[r \div T][r % T] = v
                           THEN args.dout[r \div T][r % T][d] ELSE 0], N * T)
          /\ args.dout = Ones3(N, T, Cols(args.W)) =>
               dW[v][d] = Scale * Cardinality(Occurrences(x, v))

\* word_embedding_backward has returned on an all-ones dout, for indices of
\* which one occurs more than once and one never.
C5_Witness ==
  /\ fn = "embed" /\ pc = "bwd_done" /\ InVocab(args.x, VocabV)
  /\ args.dout = Ones3(BatchN, MaxT, DimD)
  /\ \E v \in Idx(VocabV) :
       Cardinality(Occurrences(args.x, v)) >= 2 /\ ret.grads.dW[v][0] >= 2 * Scale
  /\ \E v \in Idx(VocabV) : Occurrences(args.x, v) = {}

\* Every entry of the matrix A is 0.
AllZero(A) == \A i \in DOMAIN A : \A j \in DOMAIN A[i] : A[i][j] = 0

\* C6: when temporal_softmax_loss has returned, dx[n, t, :] is all zero at
\* every (n, t) the mask leaves out, and with a mask that leaves out every
\* position the loss is exactly 0 (and so dx is all zero).
C6_MaskedOutContributesNothing ==
  (fn = "loss" /\ pc = "bwd_done") =>
    /\ \A n \in DOMAIN args.mask : \A t \in DOMAIN args.mask[n] :
         ~args.mask[n][t] => \A j \in DOMAIN ret.dx[n][t] : ret.dx[n][t][j] = 0
    /\ (\A n \in DOMAIN args.mask : \A t \in DOMAIN args.mask[n] : ~args.mask[n][t])
         => ret.loss = Fin(0)

\* C7: when temporal_affine_backward has returned, dw is (D, M) with
\* dw[d, m] the sum over all (n, t) of x[n, t, d] * dout[n, t, m], db[m] is
\* the sum over all (n, t) of dout[n, t, m], and dx is (N, T, D) with
\* dx[n, t, :] = dout[n, t, :] times the transpose of w.
C7_AffineBackwardSums ==
  (fn = "affine" /\ pc = "bwd_done") =>
    LET x == args.x
        w == args.w
        dout == args.dout
        g == ret.grads
        N == Rows(x)
        T == Rows(x[0])
        D == Rows(w)
        M == Cols(w)
    IN  /\ DOMAIN g.dw = Idx(D)
        /\ \A d \in Idx(D) : DOMAIN g.dw[d] = Idx(M)
        /\ \A d \in Idx(D) : \A m \in Idx(M) :
             g.dw[d][m] = SumTo([n \in Idx(N) |->
                            SumTo([t \in Idx(T) |-> Mul(x[n][t][d], dout[n][t][m])], T)], N)
        /\ DOMAIN g.db = Idx(M)
        /\ \A m \in Idx(M) :
             g.db[m] = SumTo([n \in Idx(N) |->
                         SumTo([t \in Idx(T) |-> dout[n][t][m]], T)], N)
        /\ DOMAIN g.dx = Idx(N)
        /\ \A n \in Idx(N) : DOMAIN g.dx[n] = Idx(T)
        /\ \A n \in Idx(N) : \A t \in Idx(T) :
             /\ DOMAIN g.dx[n][t] = Idx(D)
             /\ \A d \in Idx(D) :
                  g.dx[n][t][d] = SumTo([m \in Idx(M) |-> Mul(dout[n][t][m], w[d][m])], M)

\* temporal_affine_backward has returned for sequences of more than one
\* step, several rows gave dw[0, 0] something, and dx is not zero.
C7_Witness ==
  /\ fn = "affine" /\ pc = "bwd_done" /\ Rows(args.x[0]) >= 2
  /\ Cardinality({p \in Idx(BatchN) \X Idx(Rows(args.x[0])) :
                    Mul(args.x[p[1]][p[2]][0], args.dout[p[1]][p[2]][0]) # 0}) >= 2
  /\ ret.grads.dw[0][0] # 0
  /\ \E n \in Idx(BatchN) : ~AllZero(ret.grads.dx[n])

\* C8: no call changes a tensor its caller passed in: the caller's tensors
\* stay as they are at every step, and so does the cache from the forward
\* call's return on.
C8_ArgumentsUnchanged ==
  [][/\ args' = args
     /\ pc \in {"fwd_done", "bwd"} => ret'.cache = ret.cache]_vars

\* C9: a step forward called with an x and a prev_h of different batch
\* sizes raises and returns nothing.
C9_BatchMismatchRaises ==
  (fn \in {"rnn_step", "lstm_step"} /\ pc # "fwd"
     /\ Rows(args.x) # Rows(args.prev_h)) => pc = "raised"

\* C10: word_embedding_forward called with an index outside 0 .. V-1 raises
\* and returns nothing.
C10_IndexOutOfRangeRaises ==
  (fn = "embed" /\ pc # "fwd" /\ ~InVocab(args.x, Rows(args.W))) => pc = "raised"

\* The logistic sigmoid of one number, as sigmoid computes it.
Sig(v) == sigmoid([i \in Idx(1) |-> [j \in Idx(1) |-> v]]).out[0][0]

\* Entry (n, c) of a = x.dot(Wx) + prev_h.dot(Wh) + b for the step call's
\* arguments (a batch of one x row is broadcast).
PreAct(n, c) ==
  SumTo([d \in Idx(Cols(args.x)) |->
           Mul(args.x[IF Rows(args.x) = 1 THEN 0 ELSE n][d], args.Wx[d][c])],
        Cols(args.x))
  + SumTo([h \in Idx(Cols(args.prev_h)) |-> Mul(args.prev_h[n][h], args.Wh[h][c])],
          Cols(args.prev_h))
  + args.b[c]

\* C12: with H the hidden width, every column of 0 .. 4H-1 lies in exactly
\* one of the ranges [kH, (k+1)H), k = 0 .. 3.  The gate block that
\* lstm_step_forward writes holds in [0,H) the input gate (sigmoid, multiplies
\* the block input), in [H,2H) the forget gate (sigmoid, multiplies prev_c),
\* in [2H,3H) the output gate (sigmoid, multiplies tanh(next_c)) and in
\* [3H,4H) the block input (tanh).  The block that lstm_step_backward
\* assembles holds, in the same range for each gate, the gradient of that
\* gate computed from the values read from that range.
C12_GateLayoutFixed ==
  (fn = "lstm_step" /\ pc \in {"fwd_done", "bwd_done"}) =>
    LET H == Cols(args.prev_h)
        N == Rows(args.prev_h)
        gate == ret.cache.gate
        next_c == ret.cache.next_c
    IN  /\ \A c \in Idx(4 * H) :
             Cardinality({k \in 0 .. 3 : k * H <= c /\ c < (k + 1) * H}) = 1
        /\ DOMAIN gate = Idx(N)
        /\ \A n \in Idx(N) : DOMAIN gate[n] = Idx(4 * H)
        /\ \A n \in Idx(N) : \A j \in Idx(H) :
             /\ \A k \in 0 .. 2 : gate[n][k * H + j] = Sig(PreAct(n, k * H + j))
             /\ gate[n][3 * H + j] = Tanh(PreAct(n, 3 * H + j))
             /\ next_c[n][j] = Mul(args.prev_c[n][j], gate[n][H + j])
                               + Mul(gate[n][3 * H + j], gate[n][j])
             /\ pc = "fwd_done" =>
                  ret.next_h[n][j] = Mul(Tanh(next_c[n][j]), gate[n][2 * H + j])
        /\ pc = "bwd_done" =>
             LET dg == ret.grads.dgate_input
                 dc == args.dnext_c
             IN  /\ DOMAIN dg = Idx(N)
                 /\ \A n \in Idx(N) : DOMAIN dg[n] = Idx(4 * H)
                 /\ \A n \in Idx(N) : \A j \in Idx(H) :
                      LET gi == gate[n][j]
                          gf == gate[n][H + j]
                          go == gate[n][2 * H + j]
                          gg == gate[n][3 * H + j]
                      IN  /\ dg[n][j] = Mul(Mul(Mul(dc[n][j], gg), gi), Scale - gi)
                          /\ dg[n][H + j] =
                               Mul(Mul(Mul(dc[n][j], args.prev_c[n][j]), gf), Scale - gf)
                          /\ dg[n][2 * H + j] =
                               Mul(Mul(Mul(args.dnext_h[n][j], Tanh(next_c[n][j])), go),
                                   Scale - go)
                          /\ dg[n][3 * H + j] =
                               Mul(Mul(dc[n][j], gi), Scale - Mul(gg, gg))

\* lstm_step_backward has returned, and in some row the four ranges of the
\* assembled block hold four different non-zero gradients, read from four
\* different gate values.
C12_Witness ==
  /\ fn = "lstm_step" /\ pc = "bwd_done"
  /\ \E n \in Idx(Rows(args.prev_h)) : \E j \in Idx(DimH) :
       /\ Cardinality({ret.grads.dgate_input[n][k * DimH + j] : k \in 0 .. 3} \ {0}) = 4
       /\ Cardinality({ret.cache.gate[n][k * DimH + j] : k \in 0 .. 3}) = 4

\* C13: when sigmoid has returned, every element of x is in exactly one of
\* the two masks (pos_mask where x >= 0, neg_mask where x < 0), np.exp was
\* evaluated for it exactly once, at -x when x >= 0 and at x when x < 0, and
\* so at no positive argument.
C13_SigmoidExpNeverPositive ==
  (fn = "sigmoid" /\ pc = "fwd_done") =>
    LET x == args.x
        evals == ret.exp_pos \cup ret.exp_neg
    IN  /\ \A e \in evals : e[3] <= 0
        /\ \A i \in DOMAIN x : \A j \in DOMAIN x[i] :
             /\ ret.pos_mask[i][j] = (x[i][j] >= 0)
             /\ ret.neg_mask[i][j] = (x[i][j] < 0)
             /\ ret.pos_mask[i][j] # ret.neg_mask[i][j]
             /\ Cardinality({e \in ret.exp_pos : e[1] = i /\ e[2] = j})
                + Cardinality({e \in ret.exp_neg : e[1] = i /\ e[2] = j}) = 1
             /\ {e \in evals : e[1] = i /\ e[2] = j}
                  = {<<i, j, IF x[i][j] >= 0 THEN -x[i][j] ELSE x[i][j]>>}

\* sigmoid has returned for a matrix that holds a zero, a positive and a
\* negative number, and both np.exp calls were given elements.
C13_Witness ==
  /\ fn = "sigmoid" /\ pc = "fwd_done"
  /\ \E i \in DOMAIN args.x : \E j \in DOMAIN args.x[i] : args.x[i][j] = 0
  /\ \E i \in DOMAIN args.x : \E j \in DOMAIN args.x[i] : args.x[i][j] >= Scale
  /\ \E i \in DOMAIN args.x : \E j \in DOMAIN args.x[i] : args.x[i][j] <= -Scale
  /\ ret.exp_pos # {} /\ ret.exp_neg # {}

=============================================================================
